---- MODULE Spec2Model ----
(***************************************************************************)
(* Verification model of                                                   *)
(*   - libyul/backends/evm/Dominator.h  (DominatorFinder: Lengauer-Tarjan  *)
(*     immediate dominators, dominator tree, dominates, dominatorsOf)      *)
(*   - libsolidity/experimental/codegen/IRGeneratorForStatements.h         *)
(*     (stackSize)                                                         *)
(* The graph is assembled edge by edge the way the test fixture does       *)
(* (DominatorTest.cpp, prepareTestDefinition), then the constructor of     *)
(* DominatorFinder runs phase by phase, then the const queries are called. *)
(***************************************************************************)
EXTENDS Integers, Sequences, FiniteSets, TLC

(***************************************************************************)
(* Bounds and universes                                                    *)
(***************************************************************************)
\* Vertex names in the order the fixture introduces them; the first is the entry.
VertexNames == <<"A", "B", "C", "D">>
Vertices == {VertexNames[i] : i \in 1..Len(VertexNames)}
\* The names of the fixture's larger graphs.
DeepVertexNames == <<"A", "B", "C", "D", "E">>
DeepVertices == {DeepVertexNames[i] : i \in 1..Len(DeepVertexNames)}
\* Vertex{}: the value-initialised vertex (empty name) std::vector<V>(n) is filled with.
DefaultVertex == ""
\* Largest number of edges the fixture adds.
MaxEdges == 5
\* std::numeric_limits<size_t>::max(), the "unset" sentinel of the scratch arrays.
SizeMax == 2147483647

VARIABLES
    pc,                 \* position of the program: build, loop, step4, tree, done, assert, undefined
    succ,               \* Vertex::successors, per vertex, in push_back order
    entry,              \* _entry
    numVertices,        \* _numVertices (n_hint)
    m_vertices, m_vertexIndices, m_immediateDominators, m_dominatorTree,
    semi, parent, ancestor, label, predecessors, bucket, idom,
    pos,                \* position of the main loop in the reversed view of m_vertices
    oob,                \* history: an out-of-range element access was made
    dominatesResult,    \* what dominates(a, b) returned or threw, per pair asked
    dominatorsOfResult, \* what dominatorsOf(v) returned or threw, per vertex asked
    iterations,         \* history: per iteration of the main loop, its wIdx and the bucket it processed
    evalCalls,          \* history: the calls of eval in steps 2 and 3, argument and returned index
    compressCalls,      \* history: the calls of compressPath that returned, state on entry and result
    type,               \* the Type handed to stackSize
    context,            \* _context: the underlying type of the user-defined constructor, the binding of the type variable
    stackResult         \* what stackSize returned or threw

vars == <<pc, succ, entry, numVertices, m_vertices, m_vertexIndices,
          m_immediateDominators, m_dominatorTree, semi, parent, ancestor, label,
          predecessors, bucket, idom, pos, oob, dominatesResult, dominatorsOfResult,
          iterations, evalCalls, compressCalls, type, context, stackResult>>

stackVars == <<type, context, stackResult>>

dominatorVars == <<pc, succ, entry, numVertices, m_vertices, m_vertexIndices,
                   m_immediateDominators, m_dominatorTree, semi, parent, ancestor, label,
                   predecessors, bucket, idom, pos, oob, dominatesResult, dominatorsOfResult,
                   iterations, evalCalls, compressCalls>>

historyVars == <<iterations, evalCalls, compressCalls>>

(***************************************************************************)
(* Helpers                                                                 *)
(***************************************************************************)
\* std::map::operator[] : a missing key is inserted with a value-initialised value (0).
MapIndex(m, k) == IF k \in DOMAIN m THEN m ELSE [x \in DOMAIN m \cup {k} |-> IF x = k THEN 0 ELSE m[x]]

\* std::map assignment m[k] = v
MapPut(m, k, v) == [x \in DOMAIN m \cup {k} |-> IF x = k THEN v ELSE m[x]]

NumEdges(s) == LET RECURSIVE Sum(_)
                   Sum(S) == IF S = {} THEN 0
                             ELSE LET v == CHOOSE x \in S : TRUE
                                  IN Len(s[v]) + Sum(S \ {v})
               IN Sum(DOMAIN s)


\* The elements of a finite set of numbers in ascending order (iteration order of std::set<size_t>).
RECURSIVE Ascending(_)
Ascending(S) ==
    IF S = {} THEN <<>>
    ELSE LET m == CHOOSE x \in S : \A y \in S : x <= y
         IN <<m>> \o Ascending(S \ {m})

\* std::vector<T>(n, init) as a function on 0..n-1
Vector(n, init) == [i \in 0..(n - 1) |-> init]

(***************************************************************************)
(* Step 1: the dfs lambda of findDominators and its successor callback.    *)
(* d carries the captured state of the lambda.  An element access past the *)
(* end of a vector is undefined behaviour: a read of semi[dfIdx] with      *)
(* dfIdx = numVertices yields an arbitrary word (`oracle' says whether it  *)
(* compares equal to the sentinel), a write past the end of the scratch    *)
(* array parent is recorded in scratchWrite, and a write past the end of   *)
(* m_vertices is recorded in heapWrite, after which nothing is simulated.  *)
(***************************************************************************)
RECURSIVE dfs(_, _, _, _, _)
RECURSIVE forEachSuccessor(_, _, _, _, _, _)
dfs(s, v, d, nv, oracle) ==
    IF d.heapWrite \/ v \in d.visited THEN d
    ELSE LET i == d.dfIdx
             d1 == [d EXCEPT !.visited = @ \cup {v},
                             !.vertices = IF i < nv THEN [@ EXCEPT ![i] = v] ELSE @,
                             !.vertexIndices = MapPut(@, v, i),
                             !.semi = IF i < nv THEN [@ EXCEPT ![i] = i] ELSE @,
                             !.label = IF i < nv THEN [@ EXCEPT ![i] = i] ELSE @,
                             !.dfIdx = i + 1,
                             !.oob = @ \/ i >= nv,
                             !.heapWrite = @ \/ i >= nv]
         IN IF d1.heapWrite THEN d1 ELSE forEachSuccessor(s, v, 1, d1, nv, oracle)

\* the successors enumerated from the last to the first
RECURSIVE forEachSuccessorReversed(_, _, _, _, _, _)
forEachSuccessorReversed(s, v, k, d, nv, oracle) ==
    IF d.heapWrite \/ k > Len(s[v]) THEN d
    ELSE LET w == s[v][Len(s[v]) + 1 - k]
             i == d.dfIdx
             unset == IF i < nv THEN d.semi[i] = SizeMax ELSE oracle
             d1 == [d EXCEPT !.oob = @ \/ i >= nv]
             d2 == IF unset
                   THEN dfs(s, w,
                            [d1 EXCEPT !.parent = IF i < nv THEN [@ EXCEPT ![i] = d1.vertexIndices[v]] ELSE @,
                                       !.scratchWrite = @ \/ i >= nv],
                            nv, oracle)
                   ELSE d1
             vi == MapIndex(d2.vertexIndices, w)
             d3 == [d2 EXCEPT !.vertexIndices = vi,
                              !.predecessors = [@ EXCEPT ![vi[w]] = @ \cup {vi[v]}]]
         IN IF d2.heapWrite THEN d2 ELSE forEachSuccessorReversed(s, v, k + 1, d3, nv, oracle)

forEachSuccessor(s, v, k, d, nv, oracle) ==
    IF d.heapWrite \/ k > Len(s[v]) THEN d
    ELSE LET w == s[v][k]
             i == d.dfIdx
             unset == IF i < nv THEN d.semi[i] = SizeMax ELSE oracle
             d1 == [d EXCEPT !.oob = @ \/ i >= nv]
             d2 == IF unset
                   THEN dfs(s, w,
                            [d1 EXCEPT !.parent = IF i < nv THEN [@ EXCEPT ![i] = d1.vertexIndices[v]] ELSE @,
                                       !.scratchWrite = @ \/ i >= nv],
                            nv, oracle)
                   ELSE d1
             vi == MapIndex(d2.vertexIndices, w)
             d3 == [d2 EXCEPT !.vertexIndices = vi,
                              !.predecessors = [@ EXCEPT ![vi[w]] = @ \cup {vi[v]}]]
         IN IF d2.heapWrite THEN d2 ELSE forEachSuccessor(s, v, k + 1, d3, nv, oracle)

\* The state captured by the dfs lambda before dfs(_entry, dfs) is called.
DfsStart(nv) ==
    [visited |-> {}, vertices |-> Vector(nv, DefaultVertex), vertexIndices |-> <<>>,
     semi |-> Vector(nv, SizeMax), label |-> Vector(nv, 0), parent |-> Vector(nv, SizeMax),
     predecessors |-> Vector(nv, {}), dfIdx |-> 0,
     oob |-> FALSE, scratchWrite |-> FALSE, heapWrite |-> FALSE]

(***************************************************************************)
(* compressPath and the eval lambda.  st carries ancestor, label, semi and *)
(* ok, which turns FALSE when a solAssert fails, and the two call logs.    *)
(***************************************************************************)
\* What the log keeps of a call compressPath(vIdx) that reached its closing assertion.
CompressCall(st, s1, vIdx) ==
    [vIdx |-> vIdx, uIdx |-> st.ancestor[vIdx],
     ancestor |-> st.ancestor, label |-> st.label, semi |-> st.semi, parent |-> st.parent,
     ancestorAfter |-> s1.ancestor[vIdx], labelAfter |-> s1.label[vIdx],
     labelOfUAfter |-> s1.label[st.ancestor[vIdx]]]

\* The end of compressPath: s1 is the state before the closing solAssert, st the one on entry.
closingAssert(st, s1, vIdx) ==
    IF ~s1.ok THEN s1
    ELSE [s1 EXCEPT !.compressCalls = @ \cup {CompressCall(st, s1, vIdx)},
                    !.ok = s1.label[st.ancestor[vIdx]] <= s1.label[vIdx]]

\* compressPath that moves the ancestor up and leaves label[vIdx] as it is
RECURSIVE compressPathKeepLabel(_, _)
compressPathKeepLabel(st, vIdx) ==
    IF ~st.ok THEN st
    ELSE IF st.ancestor[vIdx] = SizeMax THEN [st EXCEPT !.ok = FALSE]
    ELSE LET uIdx == st.ancestor[vIdx]
             s1 == IF st.ancestor[uIdx] # SizeMax
                   THEN LET r == compressPathKeepLabel(st, uIdx)
                        IN IF ~r.ok THEN r
                           ELSE [r EXCEPT !.ancestor = [@ EXCEPT ![vIdx] = r.ancestor[uIdx]]]
                   ELSE st
         IN closingAssert(st, s1, vIdx)

RECURSIVE compressPath(_, _)
compressPath(st, vIdx) ==
    IF ~st.ok THEN st
    ELSE IF st.ancestor[vIdx] = SizeMax THEN [st EXCEPT !.ok = FALSE]
    ELSE LET uIdx == st.ancestor[vIdx]
             s1 == IF st.ancestor[uIdx] # SizeMax
                   THEN LET r == compressPath(st, uIdx)
                        IN IF ~r.ok THEN r
                           ELSE [r EXCEPT !.label = [@ EXCEPT ![vIdx] =
                                                       IF r.semi[r.label[uIdx]] < r.semi[r.label[vIdx]]
                                                       THEN r.label[uIdx] ELSE @],
                                          !.ancestor = [@ EXCEPT ![vIdx] = r.ancestor[uIdx]]]
                   ELSE st
         IN closingAssert(st, s1, vIdx)

\* eval: <<state after path compression, returned index>>
eval(st, vIdx) ==
    IF st.ancestor[vIdx] # SizeMax
    THEN LET r == compressPath(st, vIdx) IN <<r, r.label[vIdx]>>
    ELSE <<st, vIdx>>

\* What the log keeps of a call uIdx = eval(vIdx) made in the given step of the iteration for wIdx.
EvalCall(step, wIdx, vIdx, uIdx) == [step |-> step, wIdx |-> wIdx, vIdx |-> vIdx, uIdx |-> uIdx]

\* The state after eval returned e, the call added to the log.
Logged(e, step, wIdx, vIdx) ==
    IF e[1].ok THEN [e[1] EXCEPT !.evalCalls = @ \cup {EvalCall(step, wIdx, vIdx, e[2])}] ELSE e[1]

\* step 3 storing vIdx where wIdx is meant
RECURSIVE step3SelfIdom(_, _, _, _)
step3SelfIdom(st, wIdx, b, k) ==
    IF ~st.ok \/ k > Len(b) THEN st
    ELSE LET vIdx == b[k]
             e == eval(st, vIdx)
             uIdx == e[2]
             r == Logged(e, 3, wIdx, vIdx)
         IN IF ~r.ok THEN r
            ELSE IF ~(uIdx <= vIdx) THEN [r EXCEPT !.ok = FALSE]
            ELSE step3SelfIdom([r EXCEPT !.idom = [@ EXCEPT ![vIdx] =
                                                     IF r.semi[uIdx] < r.semi[vIdx] THEN uIdx ELSE vIdx]],
                               wIdx, b, k + 1)

\* step 3: ranges::for_each over bucket[wIdx], from position k on
RECURSIVE step3(_, _, _, _)
step3(st, wIdx, b, k) ==
    IF ~st.ok \/ k > Len(b) THEN st
    ELSE LET vIdx == b[k]
             e == eval(st, vIdx)
             uIdx == e[2]
             r == Logged(e, 3, wIdx, vIdx)
         IN IF ~r.ok THEN r
            ELSE IF ~(uIdx <= vIdx) THEN [r EXCEPT !.ok = FALSE]
            ELSE step3([r EXCEPT !.idom = [@ EXCEPT ![vIdx] =
                                             IF r.semi[uIdx] < r.semi[vIdx] THEN uIdx ELSE wIdx]],
                       wIdx, b, k + 1)

\* step 2 calling eval on wIdx where the predecessor vIdx is meant
RECURSIVE step2EvalOfW(_, _, _, _)
step2EvalOfW(st, wIdx, ps, k) ==
    IF ~st.ok \/ k > Len(ps) THEN st
    ELSE LET vIdx == ps[k]
             e == eval(st, wIdx)
             uIdx == e[2]
             r == Logged(e, 2, wIdx, vIdx)
         IN IF ~r.ok THEN r
            ELSE IF ~(uIdx <= vIdx) THEN [r EXCEPT !.ok = FALSE]
            ELSE step2EvalOfW(IF r.semi[uIdx] < r.semi[wIdx]
                              THEN [r EXCEPT !.semi = [@ EXCEPT ![wIdx] = r.semi[uIdx]]]
                              ELSE r,
                              wIdx, ps, k + 1)

\* step 2 comparing with semi of the predecessor itself where semi[uIdx] is meant
RECURSIVE step2SemiOfV(_, _, _, _)
step2SemiOfV(st, wIdx, ps, k) ==
    IF ~st.ok \/ k > Len(ps) THEN st
    ELSE LET vIdx == ps[k]
             e == eval(st, vIdx)
             uIdx == e[2]
             r == Logged(e, 2, wIdx, vIdx)
         IN IF ~r.ok THEN r
            ELSE IF ~(uIdx <= vIdx) THEN [r EXCEPT !.ok = FALSE]
            ELSE step2SemiOfV(IF r.semi[vIdx] < r.semi[wIdx]
                              THEN [r EXCEPT !.semi = [@ EXCEPT ![wIdx] = r.semi[vIdx]]]
                              ELSE r,
                              wIdx, ps, k + 1)

\* step 2: the loop over predecessors[wIdx] (a std::set, so ascending), from position k on
RECURSIVE step2(_, _, _, _)
step2(st, wIdx, ps, k) ==
    IF ~st.ok \/ k > Len(ps) THEN st
    ELSE LET vIdx == ps[k]
             e == eval(st, vIdx)
             uIdx == e[2]
             r == Logged(e, 2, wIdx, vIdx)
         IN IF ~r.ok THEN r
            ELSE IF ~(uIdx <= vIdx) THEN [r EXCEPT !.ok = FALSE]
            ELSE step2(IF r.semi[uIdx] < r.semi[wIdx]
                       THEN [r EXCEPT !.semi = [@ EXCEPT ![wIdx] = r.semi[uIdx]]]
                       ELSE r,
                       wIdx, ps, k + 1)

\* the loop body appending wIdx to its own bucket where bucket[semi[wIdx]] is meant
loopBodyAppendOwn(st, wIdx) ==
    LET s3 == step3(st, wIdx, st.bucket[wIdx], 1)
        s2 == step2(s3, wIdx, Ascending(st.predecessors[wIdx]), 1)
        sb == [s2 EXCEPT !.bucket = [@ EXCEPT ![wIdx] = Append(@, wIdx)]]
        sl == [sb EXCEPT !.ancestor = [@ EXCEPT ![wIdx] = sb.parent[wIdx]]]
    IN IF ~s2.ok THEN s2
       ELSE IF sl.ancestor[wIdx] # sl.parent[wIdx] THEN [sl EXCEPT !.ok = FALSE]
       ELSE sl

\* One iteration of the main loop for wIdx: step 3, step 2, bucket append, link.
loopBody(st, wIdx) ==
    LET s3 == step3(st, wIdx, st.bucket[wIdx], 1)
        s2 == step2(s3, wIdx, Ascending(st.predecessors[wIdx]), 1)
        sb == [s2 EXCEPT !.bucket = [@ EXCEPT ![s2.semi[wIdx]] = Append(@, wIdx)]]
        sl == [sb EXCEPT !.ancestor = [@ EXCEPT ![wIdx] = sb.parent[wIdx]]]
    IN IF ~s2.ok THEN s2
       ELSE IF sl.ancestor[wIdx] # sl.parent[wIdx] THEN [sl EXCEPT !.ok = FALSE]
       ELSE sl


\* toIdx applied along a sequence of vertices: <<the map after the operator[] calls, the indices>>
RECURSIVE toIdxAll(_, _, _)
toIdxAll(m, vs, k) ==
    IF k > Len(vs) THEN <<m, <<>>>>
    ELSE LET m1 == MapIndex(m, vs[k])
             r == toIdxAll(m1, vs, k + 1)
         IN <<r[1], <<m1[vs[k]]>> \o r[2]>>

\* step 4 without the fix-up assignment
step4NoFixup(id, sm, ws, k) == [idom |-> id, oob |-> FALSE]

\* step 4: the loop over the indices ws from position k on; "undefined" once idom is read out of range
RECURSIVE step4(_, _, _, _)
step4(id, sm, ws, k) ==
    IF k > Len(ws) THEN [idom |-> id, oob |-> FALSE]
    ELSE LET wIdx == ws[k]
         IN IF id[wIdx] # sm[wIdx]
            THEN IF id[wIdx] \in DOMAIN id
                 THEN step4([id EXCEPT ![wIdx] = id[id[wIdx]]], sm, ws, k + 1)
                 ELSE [idom |-> id, oob |-> TRUE]
            ELSE step4(id, sm, ws, k + 1)

\* buildDominatorTree inserting each child at the front of its list
RECURSIVE buildDominatorTreeFront(_, _, _)
buildDominatorTreeFront(id, tree, index) ==
    IF ~(index < Len(id)) THEN [tree |-> tree, ok |-> TRUE]
    ELSE IF ~(id[index + 1] < index) THEN [tree |-> tree, ok |-> FALSE]
    ELSE LET t1 == MapPut(tree, id[index + 1],
                          IF id[index + 1] \in DOMAIN tree THEN <<index>> \o tree[id[index + 1]] ELSE <<index>>)
         IN buildDominatorTreeFront(id, t1, index + 1)

\* buildDominatorTree from index on: the tree, and ok = FALSE when the solAssert fails
RECURSIVE buildDominatorTree(_, _, _)
buildDominatorTree(id, tree, index) ==
    IF ~(index < Len(id)) THEN [tree |-> tree, ok |-> TRUE]
    ELSE IF ~(id[index + 1] < index) THEN [tree |-> tree, ok |-> FALSE]
    ELSE LET t1 == MapPut(tree, id[index + 1],
                          IF id[index + 1] \in DOMAIN tree THEN Append(tree[id[index + 1]], index) ELSE <<index>>)
         IN buildDominatorTree(id, t1, index + 1)

\* A vector (function on 0..n-1) as a sequence, and its size
VecSeq(f) == [i \in 1..Cardinality(DOMAIN f) |-> f[i - 1]]
Size(f) == Cardinality(DOMAIN f)

\* The main loop from position p of the reversed view down to the entry.
RECURSIVE mainLoop(_, _, _, _)
mainLoop(st, vi, vs, p) ==
    LET vi1 == MapIndex(vi, vs[p])
        s1 == loopBody(st, vi1[vs[p]])
    IN IF ~s1.ok \/ p = 0 THEN [st |-> s1, vertexIndices |-> vi1]
       ELSE mainLoop(s1, vi1, vs, p - 1)

\* findDominators(_entry, nv) on the graph s as a whole, for nv > 0: what the finder holds
\* on return; ok = FALSE when a solAssert failed, oob when an element access was out of range.
findDominators(s, e, nv, oracle) ==
    LET d == dfs(s, e, DfsStart(nv), nv, oracle)
        l == mainLoop([ancestor |-> Vector(nv, SizeMax), label |-> d.label, semi |-> d.semi,
                       idom |-> Vector(nv, SizeMax), bucket |-> Vector(nv, <<>>),
                       parent |-> d.parent, predecessors |-> d.predecessors,
                       evalCalls |-> {}, compressCalls |-> {}, ok |-> TRUE],
                      d.vertexIndices, d.vertices, nv - 1)
        t == toIdxAll(l.vertexIndices, Tail(VecSeq(d.vertices)), 1)
        r == step4([l.st.idom EXCEPT ![0] = 0], l.st.semi, t[2], 1)
    IN IF d.heapWrite THEN [ok |-> TRUE, oob |-> TRUE, vertices |-> d.vertices,
                            vertexIndices |-> d.vertexIndices, idom |-> <<>>]
       ELSE IF ~l.st.ok THEN [ok |-> FALSE, oob |-> d.oob, vertices |-> d.vertices,
                              vertexIndices |-> l.vertexIndices, idom |-> <<>>]
       ELSE [ok |-> TRUE, oob |-> d.oob \/ r.oob, vertices |-> d.vertices,
             vertexIndices |-> t[1], idom |-> r.idom]

(***************************************************************************)
(* The const queries.  A result is [kind, bool, chain]: kind is "value",   *)
(* "ElementNotFound" (util::ElementNotFound, thrown for std::out_of_range) *)
(* or "AssertionFailed" (a failing solAssert).                             *)
(***************************************************************************)
Value(b, c) == [kind |-> "value", bool |-> b, chain |-> c]
ElementNotFound == [kind |-> "ElementNotFound", bool |-> FALSE, chain |-> <<>>]
AssertionFailed == [kind |-> "AssertionFailed", bool |-> FALSE, chain |-> <<>>]

\* the walk without the comparison against aIdx
RECURSIVE dominatesWalkNoMatch(_, _, _)
dominatesWalkNoMatch(id, aIdx, idomIdx) ==
    IF idomIdx = 0 THEN Value(aIdx = 0, <<>>)
    ELSE IF idomIdx \notin DOMAIN id THEN ElementNotFound
    ELSE IF ~(id[idomIdx] < idomIdx) THEN AssertionFailed
    ELSE dominatesWalkNoMatch(id, aIdx, id[idomIdx])

\* the while loop of dominates
RECURSIVE dominatesWalk(_, _, _)
dominatesWalk(id, aIdx, idomIdx) ==
    IF idomIdx = 0 THEN Value(aIdx = 0, <<>>)
    ELSE IF idomIdx = aIdx THEN Value(TRUE, <<>>)
    ELSE IF idomIdx \notin DOMAIN id THEN ElementNotFound
    ELSE IF ~(id[idomIdx] < idomIdx) THEN AssertionFailed
    ELSE dominatesWalk(id, aIdx, id[idomIdx])

\* dominates looking the vertices up with operator[] (a missing key reads as index 0)
dominatesUnchecked(vi, id, a, b) ==
    IF DOMAIN vi = {} \/ DOMAIN id = {} THEN AssertionFailed
    ELSE LET aIdx == IF a \in DOMAIN vi THEN vi[a] ELSE 0
             bIdx == IF b \in DOMAIN vi THEN vi[b] ELSE 0
         IN IF aIdx = bIdx THEN Value(TRUE, <<>>)
            ELSE dominatesWalk(id, aIdx, id[bIdx])

dominates(vi, id, a, b) ==
    IF DOMAIN vi = {} \/ DOMAIN id = {} THEN AssertionFailed
    ELSE IF a \notin DOMAIN vi \/ b \notin DOMAIN vi THEN ElementNotFound
    ELSE IF vi[a] = vi[b] THEN Value(TRUE, <<>>)
    ELSE IF vi[b] \notin DOMAIN id THEN ElementNotFound
    ELSE dominatesWalk(id, vi[a], id[vi[b]])

\* the walk that does not append the entry at the end
RECURSIVE dominatorsOfWalkNoEntry(_, _, _, _)
dominatorsOfWalkNoEntry(vs, id, idomIdx, dominators) ==
    IF idomIdx = 0 THEN Value(FALSE, dominators)
    ELSE IF idomIdx \notin DOMAIN id THEN ElementNotFound
    ELSE IF ~(id[idomIdx] < idomIdx) THEN AssertionFailed
    ELSE IF idomIdx \notin DOMAIN vs THEN ElementNotFound
    ELSE dominatorsOfWalkNoEntry(vs, id, id[idomIdx], Append(dominators, vs[idomIdx]))

\* the while loop of dominatorsOf
RECURSIVE dominatorsOfWalk(_, _, _, _)
dominatorsOfWalk(vs, id, idomIdx, dominators) ==
    IF idomIdx = 0 THEN Value(FALSE, Append(dominators, vs[0]))
    ELSE IF idomIdx \notin DOMAIN id THEN ElementNotFound
    ELSE IF ~(id[idomIdx] < idomIdx) THEN AssertionFailed
    ELSE IF idomIdx \notin DOMAIN vs THEN ElementNotFound
    ELSE dominatorsOfWalk(vs, id, id[idomIdx], Append(dominators, vs[idomIdx]))

dominatorsOf(vs, vi, id, v) ==
    IF DOMAIN vs = {} \/ DOMAIN vi = {} \/ DOMAIN id = {} THEN AssertionFailed
    ELSE IF v \notin DOMAIN vi THEN ElementNotFound
    ELSE IF vi[v] = 0 THEN Value(FALSE, <<>>)
    ELSE IF vi[v] \notin DOMAIN id THEN ElementNotFound
    ELSE dominatorsOfWalk(vs, id, id[vi[v]], <<>>)

(***************************************************************************)
(* Graph-theoretic reference notions, defined from paths only.             *)
(***************************************************************************)
Targets(s, v) == {s[v][k] : k \in 1..Len(s[v])}

\* The vertices reachable from the vertices of `from' along edges, never entering `avoid'.
RECURSIVE ReachFrom(_, _, _)
ReachFrom(s, from, avoid) ==
    LET next == (from \cup UNION {Targets(s, v) : v \in from}) \ avoid
    IN IF next = from THEN from ELSE ReachFrom(s, next, avoid)

Reachable == ReachFrom(succ, {entry}, {})

\* every path from the entry to b passes through a
RefDominates(a, b) == b \in Reachable /\ (a = b \/ b \notin ReachFrom(succ, {entry} \ {a}, {a}))

StrictDominators(v) == {a \in Reachable : a # v /\ RefDominates(a, v)}

\* the strict dominator of v that every other strict dominator of v dominates
IsRefIdom(d, v) == d \in StrictDominators(v) /\ \A a \in StrictDominators(v) \ {d} : RefDominates(a, d)

(***************************************************************************)
(* Type terms and IRGeneratorForStatements::stackSize                      *)
(***************************************************************************)
\* Nesting depth of the type terms handed to stackSize.
MaxTypeDepth == 2

\* Type is a TypeConstant (constructor and arguments) or a TypeVariable.
TypeConstant(name, args) == [kind |-> "const", name |-> name, args |-> args]
TypeVariable(name) == [kind |-> "var", name |-> name, args |-> <<>>]

UnitType == TypeConstant("Unit", <<>>)
ItselfType == TypeConstant("Itself", <<>>)
BoolType == TypeConstant("Bool", <<>>)
WordType == TypeConstant("Word", <<>>)
IntegerType == TypeConstant("Integer", <<>>)
VoidType == TypeConstant("Void", <<>>)
PairType(a, b) == TypeConstant("Pair", <<a, b>>)
FunctionType(a, b) == TypeConstant("Function", <<a, b>>)
TypeFunctionType(a, b) == TypeConstant("TypeFunction", <<a, b>>)
\* a user-defined constructor with an entry in underlyingTypes, and one without
UserType == TypeConstant("T", <<>>)
UnknownType == TypeConstant("S", <<>>)

\* TypeEnvironment::resolve: a bound type variable stands for its binding.
resolve(ctx, t) ==
    IF t.kind = "var" /\ t.name \in DOMAIN ctx.env THEN ctx.env[t.name] ELSE t

\* TypeSystemHelpers
isTypeConstant(t) == t.kind = "const"
isPrimitiveType(t, primitive) == t.kind = "const" /\ t.name = primitive
isFunctionType(t) == t.kind = "const" /\ t.name = "Function"

\* env.unify(genericFunctionType, underlyingType), env.resolveRecursive and destTypeFunctionType
\* for an underlying type that is a free type variable: the variable is bound to
\* TypeFunction(tuple(arguments), fresh) in the clone, and the result type is the fresh variable.
monomorphizedResultType(ctx, arguments, underlyingType) == TypeVariable("fresh")

StackValue(n) == [kind |-> "value", n |-> n]
CompilerError == [kind |-> "CompilerError", n |-> 0]
StackAssertionFailed == [kind |-> "AssertionFailed", n |-> 0]
OutOfRange == [kind |-> "out_of_range", n |-> 0]

\* a + b where either operand may have thrown; the operands of + are unsequenced, so when
\* both throw either exception may be the one that propagates
SumOutcomes(A, B) ==
    UNION {IF a.kind = "value" /\ b.kind = "value" THEN {StackValue(a.n + b.n)}
           ELSE IF a.kind = "value" THEN {b}
           ELSE IF b.kind = "value" THEN {a}
           ELSE {a, b} : a \in A, b \in B}

\* stackSize with both operands of the Pair sum taken from the first argument
RECURSIVE stackSizeFrontTwice(_, _)
stackSizeFrontTwice(ctx, t) ==
    LET r == resolve(ctx, t)
    IN IF ~isTypeConstant(r) THEN {StackAssertionFailed}
       ELSE IF isPrimitiveType(r, "Unit") \/ isPrimitiveType(r, "Itself") THEN {StackValue(0)}
       ELSE IF isPrimitiveType(r, "Bool") \/ isPrimitiveType(r, "Word")
            THEN IF r.args = <<>> THEN {StackValue(1)} ELSE {StackAssertionFailed}
       ELSE IF isFunctionType(r) THEN {StackValue(1)}
       ELSE IF \/ isPrimitiveType(r, "Integer") \/ isPrimitiveType(r, "Void")
               \/ isPrimitiveType(r, "TypeFunction")
            THEN {CompilerError}
       ELSE IF isPrimitiveType(r, "Pair")
            THEN IF Len(r.args) # 2 THEN {StackAssertionFailed}
                 ELSE SumOutcomes(stackSizeFrontTwice(ctx, r.args[1]), stackSizeFrontTwice(ctx, r.args[1]))
       ELSE IF r.name \notin DOMAIN ctx.underlyingTypes THEN {OutOfRange}
       ELSE LET underlyingType == resolve(ctx, ctx.underlyingTypes[r.name])
            IN IF isTypeConstant(underlyingType) THEN stackSizeFrontTwice(ctx, underlyingType)
               ELSE stackSizeFrontTwice(ctx, monomorphizedResultType(ctx, r.args, underlyingType))

\* stackSize(_context, _type): the set of outcomes (one, unless two operands of a sum throw)
RECURSIVE stackSize(_, _)
stackSize(ctx, t) ==
    LET r == resolve(ctx, t)
    IN IF ~isTypeConstant(r) THEN {StackAssertionFailed}
       ELSE IF isPrimitiveType(r, "Unit") \/ isPrimitiveType(r, "Itself") THEN {StackValue(0)}
       ELSE IF isPrimitiveType(r, "Bool") \/ isPrimitiveType(r, "Word")
            THEN IF r.args = <<>> THEN {StackValue(1)} ELSE {StackAssertionFailed}
       ELSE IF isFunctionType(r) THEN {StackValue(1)}
       ELSE IF \/ isPrimitiveType(r, "Integer") \/ isPrimitiveType(r, "Void")
               \/ isPrimitiveType(r, "TypeFunction")
            THEN {CompilerError}
       ELSE IF isPrimitiveType(r, "Pair")
            THEN IF Len(r.args) # 2 THEN {StackAssertionFailed}
                 ELSE SumOutcomes(stackSize(ctx, r.args[1]), stackSize(ctx, r.args[2]))
       ELSE IF r.name \notin DOMAIN ctx.underlyingTypes THEN {OutOfRange}
       ELSE LET underlyingType == resolve(ctx, ctx.underlyingTypes[r.name])
            IN IF isTypeConstant(underlyingType) THEN stackSize(ctx, underlyingType)
               ELSE stackSize(ctx, monomorphizedResultType(ctx, r.args, underlyingType))

RECURSIVE TypeDepth(_)
TypeDepth(t) ==
    IF t.args = <<>> THEN 0
    ELSE 1 + (LET a == TypeDepth(t.args[1])
                  b == TypeDepth(t.args[2])
              IN IF a >= b THEN a ELSE b)

\* The types a term starts from, and the ones it is combined with.
LeafTypes == {UnitType, ItselfType, BoolType, WordType, IntegerType, VoidType,
              TypeFunctionType(UnitType, WordType), UserType, UnknownType, TypeVariable("a")}
SideTypes == {UnitType, WordType, VoidType, UserType}

\* The contexts: what underlyingTypes holds for the constructor T, and what the
\* environment binds the type variable a to.
UnderlyingChoices == {UnitType, WordType, PairType(WordType, BoolType), IntegerType, TypeVariable("b")}
Contexts ==
    {[underlyingTypes |-> [n \in {"T"} |-> u], env |-> e] :
        u \in UnderlyingChoices, e \in {<<>>, [n \in {"a"} |-> BoolType], [n \in {"a"} |-> VoidType]}}

NoStackResult == [kind |-> "none", n |-> 0]

StackIdle ==
    /\ type = UnitType
    /\ context = [underlyingTypes |-> <<>>, env |-> <<>>]
    /\ stackResult = NoStackResult

(***************************************************************************)
(* Actions                                                                 *)
(***************************************************************************)
\* No DominatorFinder yet: the fixture has an entry and no edge.
DominatorInit ==
    /\ pc = "build"
    /\ succ = [v \in Vertices |-> <<>>]
    /\ entry = VertexNames[1]
    /\ numVertices = 0
    /\ m_vertices = <<>> /\ m_vertexIndices = <<>>
    /\ m_immediateDominators = <<>> /\ m_dominatorTree = <<>>
    /\ semi = <<>> /\ parent = <<>> /\ ancestor = <<>> /\ label = <<>>
    /\ predecessors = <<>> /\ bucket = <<>> /\ idom = <<>>
    /\ pos = 0
    /\ oob = FALSE
    /\ dominatesResult = <<>>
    /\ dominatorsOfResult = <<>>
    /\ iterations = <<>>
    /\ evalCalls = {}
    /\ compressCalls = {}

Init == DominatorInit /\ StackIdle

\* The names in use: the entry and the end points of the edges added so far.
Used(s) == {entry} \cup {v \in DOMAIN s : s[v] # <<>>} \cup UNION {Targets(s, v) : v \in DOMAIN s}

\* U and the first of the names that is not in U.
WithFreshIn(names, U) ==
    U \cup {names[i] : i \in {j \in 1..Len(names) :
                                /\ names[j] \notin U
                                /\ \A k \in 1..(j - 1) : names[k] \in U}}

WithFresh(U) == WithFreshIn(VertexNames, U)

\* The fixture pushes one more edge: test->vertices[from]->successors.push_back(test->vertices[to]).
\* The graph is a directed graph: an edge is listed once (self-loops are edges).
\* The engine never compares names, so a vertex that no edge mentions yet is taken to be the
\* next unused name: the graphs this leaves out are renamings of graphs it keeps.
AddEdge(u, v) ==
    /\ pc = "build"
    /\ NumEdges(succ) < MaxEdges
    /\ v \notin Targets(succ, u)
    /\ u \in WithFresh(Used(succ))
    /\ v \in WithFresh(Used(succ) \cup {u})
    /\ succ' = [succ EXCEPT ![u] = Append(@, v)]
    /\ UNCHANGED <<pc, entry, numVertices, m_vertices, m_vertexIndices, m_immediateDominators,
                   m_dominatorTree, semi, parent, ancestor, label, predecessors, bucket, idom,
                   pos, oob, dominatesResult, dominatorsOfResult>>
    /\ UNCHANGED historyVars
    /\ UNCHANGED stackVars

\* DominatorFinder(_entry, nv): m_vertices(nv), then findDominators up to the end of step 1.
Construct(nv, oracle) ==
    /\ pc = "build"
    /\ numVertices' = nv
    /\ IF nv = 0
       THEN /\ pc' = "assert"
            /\ UNCHANGED <<m_vertices, m_vertexIndices, semi, parent, ancestor, label,
                           predecessors, bucket, idom, pos, oob>>
       ELSE \E d \in {dfs(succ, entry, DfsStart(nv), nv, oracle)} :
               /\ pc' \in (IF d.heapWrite THEN {"undefined"}
                           ELSE IF d.scratchWrite THEN {"loop", "undefined"}
                           ELSE {"loop"})
               /\ m_vertices' = d.vertices
               /\ m_vertexIndices' = d.vertexIndices
               /\ semi' = d.semi /\ parent' = d.parent /\ label' = d.label
               /\ predecessors' = d.predecessors
               /\ ancestor' = Vector(nv, SizeMax)
               /\ bucket' = Vector(nv, <<>>)
               /\ idom' = Vector(nv, SizeMax)
               /\ pos' = nv - 1
               /\ oob' = d.oob
    /\ UNCHANGED <<succ, entry, m_immediateDominators, m_dominatorTree, dominatesResult, dominatorsOfResult>>
    /\ UNCHANGED historyVars
    /\ UNCHANGED stackVars

\* The caller passes the number of vertices reachable from the entry.
ConstructExact == \E oracle \in BOOLEAN : Construct(Cardinality(Reachable), oracle)

\* The caller passes any hint.
ConstructHint == \E nv \in 1..(Len(VertexNames) + 1), oracle \in BOOLEAN : Construct(nv, oracle)

\* The main loop leaving once the vertex after the entry is done
LoopIterSkipEntry ==
    /\ pc = "loop"
    /\ LET vi == MapIndex(m_vertexIndices, m_vertices[pos])
           wIdx == vi[m_vertices[pos]]
       IN \E st \in {loopBody([ancestor |-> ancestor, label |-> label, semi |-> semi, idom |-> idom,
                           bucket |-> bucket, parent |-> parent, predecessors |-> predecessors,
                           evalCalls |-> evalCalls, compressCalls |-> compressCalls,
                           ok |-> TRUE], wIdx)} :
          /\ m_vertexIndices' = vi
          /\ ancestor' = st.ancestor /\ label' = st.label /\ semi' = st.semi
          /\ idom' = st.idom /\ bucket' = st.bucket
          /\ evalCalls' = st.evalCalls /\ compressCalls' = st.compressCalls
          /\ iterations' = Append(iterations, [wIdx |-> wIdx, bucket |-> bucket[wIdx]])
          /\ pc' = IF ~st.ok THEN "assert" ELSE IF pos <= 1 THEN "step4" ELSE "loop"
          /\ pos' = IF st.ok /\ pos > 1 THEN pos - 1 ELSE pos
    /\ UNCHANGED <<succ, entry, numVertices, m_vertices, m_immediateDominators, m_dominatorTree,
                   parent, predecessors, oob, dominatesResult, dominatorsOfResult>>
    /\ UNCHANGED stackVars

\* One iteration of "for (size_t wIdx: m_vertices | reverse | transform(toIdx))".
LoopIter ==
    /\ pc = "loop"
    /\ LET vi == MapIndex(m_vertexIndices, m_vertices[pos])
           wIdx == vi[m_vertices[pos]]
       IN \E st \in {loopBody([ancestor |-> ancestor, label |-> label, semi |-> semi, idom |-> idom,
                           bucket |-> bucket, parent |-> parent, predecessors |-> predecessors,
                           evalCalls |-> evalCalls, compressCalls |-> compressCalls,
                           ok |-> TRUE], wIdx)} :
          /\ m_vertexIndices' = vi
          /\ ancestor' = st.ancestor /\ label' = st.label /\ semi' = st.semi
          /\ idom' = st.idom /\ bucket' = st.bucket
          /\ evalCalls' = st.evalCalls /\ compressCalls' = st.compressCalls
          /\ iterations' = Append(iterations, [wIdx |-> wIdx, bucket |-> bucket[wIdx]])
          /\ pc' = IF ~st.ok THEN "assert" ELSE IF pos = 0 THEN "step4" ELSE "loop"
          /\ pos' = IF st.ok /\ pos > 0 THEN pos - 1 ELSE pos
    /\ UNCHANGED <<succ, entry, numVertices, m_vertices, m_immediateDominators, m_dominatorTree,
                   parent, predecessors, oob, dominatesResult, dominatorsOfResult>>
    /\ UNCHANGED stackVars

\* step 4 and "return idom": the locals of findDominators are destroyed.
Step4 ==
    /\ pc = "step4"
    /\ LET t == toIdxAll(m_vertexIndices, Tail(VecSeq(m_vertices)), 1)
       IN \E r \in {step4([idom EXCEPT ![0] = 0], semi, t[2], 1)} :
          /\ m_vertexIndices' = t[1]
          /\ m_immediateDominators' = r.idom
          /\ oob' = (oob \/ r.oob)
          /\ pc' = IF r.oob THEN "undefined" ELSE "tree"
    /\ semi' = <<>> /\ parent' = <<>> /\ ancestor' = <<>> /\ label' = <<>>
    /\ predecessors' = <<>> /\ bucket' = <<>> /\ idom' = <<>>
    /\ UNCHANGED <<succ, entry, numVertices, m_vertices, m_dominatorTree, pos, dominatesResult,
                   dominatorsOfResult>>
    /\ UNCHANGED historyVars
    /\ UNCHANGED stackVars

\* buildDominatorTree(), the body of the constructor.
BuildTree ==
    /\ pc = "tree"
    /\ \E r \in {IF Size(m_immediateDominators) = 0 THEN [tree |-> <<>>, ok |-> FALSE]
                  ELSE buildDominatorTree(VecSeq(m_immediateDominators), <<>>, 1)} :
          /\ m_dominatorTree' = r.tree
          /\ pc' = IF r.ok THEN "done" ELSE "assert"
    /\ UNCHANGED <<succ, entry, numVertices, m_vertices, m_vertexIndices, m_immediateDominators,
                   semi, parent, ancestor, label, predecessors, bucket, idom, pos, oob>>
    /\ UNCHANGED <<dominatesResult, dominatorsOfResult>>
    /\ UNCHANGED historyVars
    /\ UNCHANGED stackVars

\* The caller asks dominates(_a, _b) for every pair of names (the method is const).
Dominates ==
    /\ pc = "done"
    /\ dominatesResult = <<>>
    /\ dominatesResult' = [p \in Vertices \X Vertices |->
                             dominates(m_vertexIndices, m_immediateDominators, p[1], p[2])]
    /\ UNCHANGED <<pc, succ, entry, numVertices, m_vertices, m_vertexIndices, m_immediateDominators,
                   m_dominatorTree, semi, parent, ancestor, label, predecessors, bucket, idom,
                   pos, oob, dominatorsOfResult>>
    /\ UNCHANGED historyVars
    /\ UNCHANGED stackVars

\* The caller asks dominatorsOf(_v) for every name (the method is const).
DominatorsOf ==
    /\ pc = "done"
    /\ dominatorsOfResult = <<>>
    /\ dominatorsOfResult' = [v \in Vertices |->
                                dominatorsOf(m_vertices, m_vertexIndices, m_immediateDominators, v)]
    /\ UNCHANGED <<pc, succ, entry, numVertices, m_vertices, m_vertexIndices, m_immediateDominators,
                   m_dominatorTree, semi, parent, ancestor, label, predecessors, bucket, idom,
                   pos, oob, dominatesResult>>
    /\ UNCHANGED historyVars
    /\ UNCHANGED stackVars

AddEdgeAny == \E u \in Vertices, v \in Vertices : AddEdge(u, v)

Next ==
    \/ AddEdgeAny
    \/ ConstructExact
    \/ LoopIter
    \/ Step4
    \/ BuildTree
    \/ Dominates
    \/ DominatorsOf

Spec == Init /\ [][Next]_vars

NextHint ==
    \/ AddEdgeAny
    \/ ConstructHint
    \/ LoopIter
    \/ Step4
    \/ BuildTree
    \/ Dominates
    \/ DominatorsOf

SpecHint == Init /\ [][NextHint]_vars

(***************************************************************************)
(* Construction on the larger graphs: up to five vertices.  A graph on     *)
(* five vertices has no self-loop and no edge into the entry (the graphs   *)
(* on up to four vertices have both).                                      *)
(***************************************************************************)
DeepInit ==
    /\ StackIdle
    /\ pc = "build"
    /\ succ = [v \in DeepVertices |-> <<>>]
    /\ entry = DeepVertexNames[1]
    /\ numVertices = 0
    /\ m_vertices = <<>> /\ m_vertexIndices = <<>>
    /\ m_immediateDominators = <<>> /\ m_dominatorTree = <<>>
    /\ semi = <<>> /\ parent = <<>> /\ ancestor = <<>> /\ label = <<>>
    /\ predecessors = <<>> /\ bucket = <<>> /\ idom = <<>>
    /\ pos = 0
    /\ oob = FALSE
    /\ dominatesResult = <<>>
    /\ dominatorsOfResult = <<>>
    /\ iterations = <<>>
    /\ evalCalls = {}
    /\ compressCalls = {}

AddEdgeDeep(u, v) ==
    /\ pc = "build"
    /\ NumEdges(succ) < MaxEdges
    /\ v \notin Targets(succ, u)
    /\ u \in WithFreshIn(DeepVertexNames, Used(succ))
    /\ v \in WithFreshIn(DeepVertexNames, Used(succ) \cup {u})
    /\ \E s \in {[succ EXCEPT ![u] = Append(@, v)]} :
          /\ DeepVertexNames[Len(DeepVertexNames)] \in Used(s) =>
                \A x \in DeepVertices : x \notin Targets(s, x) /\ entry \notin Targets(s, x)
          /\ succ' = s
    /\ UNCHANGED <<pc, entry, numVertices, m_vertices, m_vertexIndices, m_immediateDominators,
                   m_dominatorTree, semi, parent, ancestor, label, predecessors, bucket, idom,
                   pos, oob, dominatesResult, dominatorsOfResult>>
    /\ UNCHANGED historyVars
    /\ UNCHANGED stackVars

AddEdgeDeepAny == \E u \in DeepVertices, v \in DeepVertices : AddEdgeDeep(u, v)

NextDeep ==
    \/ AddEdgeDeepAny
    \/ ConstructExact
    \/ LoopIter
    \/ Step4
    \/ BuildTree

SpecDeep == DeepInit /\ [][NextDeep]_vars


(***************************************************************************)
(* Reference notions for the claims                                        *)
(***************************************************************************)
Range(q) == {q[k] : k \in 1..Len(q)}

\* Depth-first preorder from v, visiting successors in enumeration order (textbook definition).
RECURSIVE RefVisit(_, _, _)
RECURSIVE RefVisitAll(_, _, _)
RefVisit(s, v, seen) == IF v \in Range(seen) THEN seen ELSE RefVisitAll(s, s[v], Append(seen, v))
RefVisitAll(s, ws, seen) == IF ws = <<>> THEN seen ELSE RefVisitAll(s, Tail(ws), RefVisit(s, Head(ws), seen))

RefPreorder == RefVisit(succ, entry, <<>>)

\* n: the number of vertices reachable from the entry
NumReachable == Cardinality(Reachable)

\* index(v) and idom as the public accessors give them
IndexOf(v) == m_vertexIndices[v]
IdomVertex(v) == m_vertices[m_immediateDominators[IndexOf(v)]]

Edges == {<<u, v>> \in Vertices \X Vertices : v \in Targets(succ, u)}

(***************************************************************************)
(* C1: after construction (n_hint = n), immediateDominators()[i] is, for   *)
(* every i > 0, the DFS index of the true immediate dominator of           *)
(* vertices()[i]: the strict dominator that every other strict dominator   *)
(* dominates, dominance meaning "on every path from the entry".            *)
(***************************************************************************)
C1_IdomIsTrueImmediateDominator ==
    pc = "done" =>
        \A i \in 1..(NumReachable - 1) :
            /\ m_immediateDominators[i] \in 0..(NumReachable - 1)
            /\ IsRefIdom(m_vertices[m_immediateDominators[i]], m_vertices[i])

\* a constructed graph of four vertices where some immediate dominator is neither the
\* previous vertex in DFS order nor a direct predecessor
C1_Witness ==
    /\ pc = "done" /\ NumReachable = 4
    /\ \E i \in 1..3 : /\ m_immediateDominators[i] < i - 1
                       /\ m_vertices[i] \notin Targets(succ, m_vertices[m_immediateDominators[i]])

(***************************************************************************)
(* C2: after construction the DFS numbering is a bijection between the     *)
(* reachable vertices and [0, n), in DFS preorder along the successor      *)
(* order; vertices()[0] is the entry, vertexIndices()[vertices()[i]] = i,  *)
(* and no unreachable vertex is in vertices() or vertexIndices().          *)
(***************************************************************************)
C2_DfsNumberingIsPreorderBijection ==
    pc = "done" =>
        /\ DOMAIN m_vertices = 0..(NumReachable - 1)
        /\ DOMAIN m_vertexIndices = Reachable
        /\ VecSeq(m_vertices) = RefPreorder
        /\ m_vertices[0] = entry
        /\ \A i \in DOMAIN m_vertices : m_vertexIndices[m_vertices[i]] = i
        /\ \A v \in Vertices \ Reachable :
              v \notin DOMAIN m_vertexIndices /\ \A i \in DOMAIN m_vertices : m_vertices[i] # v

\* a constructed graph of three or more reachable vertices, one of them with two
\* successors, and an unreachable vertex that has an outgoing edge
C2_Witness ==
    /\ pc = "done" /\ NumReachable >= 3
    /\ \E u \in Vertices \ Reachable : succ[u] # <<>>
    /\ \E v \in Reachable : Len(succ[v]) >= 2

(***************************************************************************)
(* C3: after step 4 idom[0] = 0 and idom[i] < i for every i > 0, and the   *)
(* assertions on it (buildDominatorTree, the walks of dominates and        *)
(* dominatorsOf) never fail.                                               *)
(***************************************************************************)
C3_IdomDecreasesNoAssertion ==
    /\ pc # "assert"
    /\ pc \in {"tree", "done"} =>
          /\ m_immediateDominators[0] = 0
          /\ \A i \in DOMAIN m_immediateDominators \ {0} : m_immediateDominators[i] < i
    /\ \A p \in DOMAIN dominatesResult : dominatesResult[p].kind # "AssertionFailed"
    /\ \A v \in DOMAIN dominatorsOfResult : dominatorsOfResult[v].kind # "AssertionFailed"

\* both walks were made on a tree of depth at least two
C3_Witness ==
    /\ pc = "done" /\ dominatesResult # <<>> /\ dominatorsOfResult # <<>>
    /\ \E i \in DOMAIN m_immediateDominators : m_immediateDominators[i] # 0

(***************************************************************************)
(* C4: for reachable a and b, dominates(a, b) returns true iff every path  *)
(* from the entry to b passes through a.                                   *)
(***************************************************************************)
C4_DominatesIffOnEveryPath ==
    \A p \in DOMAIN dominatesResult :
        (p[1] \in Reachable /\ p[2] \in Reachable) =>
            /\ dominatesResult[p].kind = "value"
            /\ dominatesResult[p].bool = RefDominates(p[1], p[2])

\* a true answer found by the walk and a false answer for a vertex that is not the entry
C4_Witness ==
    /\ dominatesResult # <<>>
    /\ \E a \in Reachable \ {entry}, b \in Reachable \ {entry} :
          a # b /\ dominatesResult[<<a, b>>].bool /\ ~dominatesResult[<<b, a>>].bool
    /\ \E a \in Reachable \ {entry}, b \in Reachable \ {entry} :
          a # b /\ ~dominatesResult[<<a, b>>].bool /\ ~dominatesResult[<<b, a>>].bool

(***************************************************************************)
(* C5 as stated: for every edge (u, v) whose target v is reachable,        *)
(* dominates(vertices()[idom[index(v)]], u) is true.                       *)
(***************************************************************************)
C5_Original ==
    dominatesResult # <<>> =>
        \A e \in Edges :
            e[2] \in Reachable =>
                /\ dominatesResult[<<IdomVertex(e[2]), e[1]>>].kind = "value"
                /\ dominatesResult[<<IdomVertex(e[2]), e[1]>>].bool

(***************************************************************************)
(* C5 amended: for every edge (u, v) whose source u is reachable (so v is  *)
(* too), dominates(vertices()[idom[index(v)]], u) is true.                 *)
(***************************************************************************)
C5_IdomOfTargetDominatesReachableSource ==
    dominatesResult # <<>> =>
        \A e \in Edges :
            e[1] \in Reachable =>
                /\ e[2] \in Reachable
                /\ dominatesResult[<<IdomVertex(e[2]), e[1]>>].kind = "value"
                /\ dominatesResult[<<IdomVertex(e[2]), e[1]>>].bool

\* an edge into a join vertex whose immediate dominator is not the source of the edge
C5_Witness ==
    /\ dominatesResult # <<>>
    /\ \E e \in Edges : /\ e[1] \in Reachable /\ e[1] # e[2]
                        /\ IdomVertex(e[2]) # e[1]
                        /\ IdomVertex(e[2]) # entry


(***************************************************************************)
(* C6: dominatorsOf(entry) is the empty sequence; for any other reachable  *)
(* v it is the idom chain of v: it starts with vertices()[idom[index(v)]], *)
(* each next element is the immediate dominator of the one before, the     *)
(* last element is the entry, which occurs exactly once, and v is not in   *)
(* it.                                                                     *)
(***************************************************************************)
C6_DominatorsOfIsIdomChain ==
    dominatorsOfResult # <<>> =>
        /\ dominatorsOfResult[entry].kind = "value"
        /\ dominatorsOfResult[entry].chain = <<>>
        /\ \A v \in Reachable \ {entry} :
              LET c == dominatorsOfResult[v].chain
              IN /\ dominatorsOfResult[v].kind = "value"
                 /\ Len(c) >= 1
                 /\ c[1] = IdomVertex(v)
                 /\ \A k \in 1..(Len(c) - 1) : c[k + 1] = IdomVertex(c[k]) /\ IsRefIdom(c[k + 1], c[k])
                 /\ c[Len(c)] = entry
                 /\ Cardinality({k \in 1..Len(c) : c[k] = entry}) = 1
                 /\ v \notin Range(c)

\* a chain of three dominators was returned
C6_Witness ==
    /\ dominatorsOfResult # <<>>
    /\ \E v \in Reachable : Len(dominatorsOfResult[v].chain) = 3

(***************************************************************************)
(* C7: dominates(a, b) throws ElementNotFound when a or b was never        *)
(* reached by the DFS, dominatorsOf(v) throws it when v was never reached; *)
(* neither returns a value, and it is not an assertion failure.            *)
(***************************************************************************)
C7_UnreachedVertexIsElementNotFound ==
    /\ \A p \in DOMAIN dominatesResult :
          (p[1] \notin Reachable \/ p[2] \notin Reachable) =>
              /\ dominatesResult[p].kind = "ElementNotFound"
              /\ dominatesResult[p].kind \notin {"value", "AssertionFailed"}
    /\ \A v \in DOMAIN dominatorsOfResult :
          v \notin Reachable =>
              /\ dominatorsOfResult[v].kind = "ElementNotFound"
              /\ dominatorsOfResult[v].kind \notin {"value", "AssertionFailed"}

\* both queries were asked about a vertex that has an edge into the reachable part
\* but is itself unreachable
C7_Witness ==
    /\ dominatesResult # <<>> /\ dominatorsOfResult # <<>>
    /\ \E u \in Vertices \ Reachable : Targets(succ, u) \cap Reachable # {}

(***************************************************************************)
(* C8: dominatorTree() holds every index of [1, n) exactly once, in the    *)
(* list keyed by its idom, and nothing else: 0 is in no list, every list   *)
(* is strictly ascending, no key has an empty list, and the lists hold     *)
(* n - 1 indices in total.                                                 *)
(***************************************************************************)
RECURSIVE SumLen(_, _)
SumLen(t, K) == IF K = {} THEN 0 ELSE LET k == CHOOSE x \in K : TRUE IN Len(t[k]) + SumLen(t, K \ {k})

C8_DominatorTreeIsTheIdomRelation ==
    pc = "done" =>
        /\ \A i \in 1..(NumReachable - 1) :
              /\ m_immediateDominators[i] \in DOMAIN m_dominatorTree
              /\ Cardinality({k \in 1..Len(m_dominatorTree[m_immediateDominators[i]]) :
                                m_dominatorTree[m_immediateDominators[i]][k] = i}) = 1
              /\ \A q \in DOMAIN m_dominatorTree \ {m_immediateDominators[i]} :
                    i \notin Range(m_dominatorTree[q])
        /\ \A q \in DOMAIN m_dominatorTree :
              /\ q \in 0..(NumReachable - 1)
              /\ m_dominatorTree[q] # <<>>
              /\ Range(m_dominatorTree[q]) \subseteq 1..(NumReachable - 1)
              /\ \A k \in 1..(Len(m_dominatorTree[q]) - 1) : m_dominatorTree[q][k] < m_dominatorTree[q][k + 1]
        /\ SumLen(m_dominatorTree, DOMAIN m_dominatorTree) = NumReachable - 1

\* a tree with two keys, one of them with two children
C8_Witness ==
    /\ pc = "done"
    /\ Cardinality(DOMAIN m_dominatorTree) >= 2
    /\ \E q \in DOMAIN m_dominatorTree : Len(m_dominatorTree[q]) >= 2

(***************************************************************************)
(* C9 as stated: when n_hint differs from the number n of reachable        *)
(* vertices, construction completes without an assertion failure or an     *)
(* out-of-range access, and vertices(), vertexIndices() and                *)
(* immediateDominators() have exactly n entries, for the reachable         *)
(* vertices only.                                                          *)
(***************************************************************************)
C9_HintMismatchIsHarmless ==
    (pc # "build" /\ numVertices # NumReachable) =>
        /\ pc \notin {"assert", "undefined"}
        /\ ~oob
        /\ pc = "done" =>
              /\ DOMAIN m_vertices = 0..(NumReachable - 1)
              /\ DOMAIN m_vertexIndices = Reachable
              /\ DOMAIN m_immediateDominators = 0..(NumReachable - 1)


(***************************************************************************)
(* stackSize as a specification of its own: a type term is put together,   *)
(* then stackSize is called on it.                                         *)
(***************************************************************************)
StackInit ==
    /\ DominatorInit
    /\ type \in LeafTypes
    /\ context \in Contexts
    /\ stackResult = NoStackResult

\* The caller wraps the type into a Pair or a function type.
WrapType(ctor, other, left) ==
    /\ stackResult = NoStackResult
    /\ TypeDepth(type) < MaxTypeDepth
    /\ type' = IF left THEN TypeConstant(ctor, <<type, other>>) ELSE TypeConstant(ctor, <<other, type>>)
    /\ UNCHANGED <<context, stackResult>>
    /\ UNCHANGED dominatorVars

WrapTypeAny == \E ctor \in {"Pair", "Function"}, other \in SideTypes, left \in BOOLEAN : WrapType(ctor, other, left)

\* A call stackSize(_context, _type).
StackSize ==
    /\ stackResult = NoStackResult
    /\ stackResult' \in stackSize(context, type)
    /\ UNCHANGED <<type, context>>
    /\ UNCHANGED dominatorVars

NextStack ==
    \/ WrapTypeAny
    \/ StackSize

SpecStack == StackInit /\ [][NextStack]_vars

\* The terms C10 speaks of: built from Unit, Itself, Bool, Word, function types, Pair and
\* user-defined constructors whose underlying type is such a type constant.
RECURSIVE InFootprintFamily(_, _)
InFootprintFamily(ctx, t) ==
    /\ t.kind = "const"
    /\ \/ t.name \in {"Unit", "Itself", "Bool", "Word"}
       \/ t.name = "Function"
       \/ t.name = "Pair" /\ InFootprintFamily(ctx, t.args[1]) /\ InFootprintFamily(ctx, t.args[2])
       \/ /\ t.name \in DOMAIN ctx.underlyingTypes
          /\ InFootprintFamily(ctx, ctx.underlyingTypes[t.name])

\* The reference function of C10.
RECURSIVE RefFootprint(_, _)
RefFootprint(ctx, t) ==
    CASE t.name \in {"Unit", "Itself"} -> 0
      [] t.name \in {"Bool", "Word", "Function"} -> 1
      [] t.name = "Pair" -> RefFootprint(ctx, t.args[1]) + RefFootprint(ctx, t.args[2])
      [] OTHER -> RefFootprint(ctx, ctx.underlyingTypes[t.name])

RECURSIVE Mentions(_, _)
Mentions(t, name) == t.name = name \/ \E k \in 1..Len(t.args) : Mentions(t.args[k], name)

(***************************************************************************)
(* C10: for a monomorphic term built from Unit, Itself, Bool, Word,        *)
(* function types, Pair and user-defined constructors whose underlying     *)
(* type is a type constant, stackSize returns 0 for Unit and Itself, 1 for *)
(* Bool, Word and function types, the sum of the two components for a      *)
(* Pair, and the size of the underlying type for a user-defined            *)
(* constructor.                                                            *)
(***************************************************************************)
C10_StackSizeIsReferenceFootprint ==
    (stackResult # NoStackResult /\ InFootprintFamily(context, type)) =>
        /\ stackResult.kind = "value"
        /\ stackResult.n = RefFootprint(context, type)

\* stackSize returned 3 or more for nested pairs holding the user-defined constructor
C10_Witness ==
    /\ stackResult.kind = "value" /\ stackResult.n >= 3
    /\ InFootprintFamily(context, type)
    /\ TypeDepth(type) = 2 /\ type.name = "Pair"
    /\ Mentions(type, "T")

\* The type resolves to a primitive without a stack form, or evaluating it reaches one:
\* through a component of a Pair or through the underlying type of its constructor.
RECURSIVE ReachesNoStackForm(_, _)
ReachesNoStackForm(ctx, t) ==
    LET r == resolve(ctx, t)
    IN /\ r.kind = "const"
       /\ \/ r.name \in {"Integer", "Void", "TypeFunction"}
          \/ r.name = "Pair" /\ \E k \in 1..2 : ReachesNoStackForm(ctx, r.args[k])
          \/ /\ r.name \in DOMAIN ctx.underlyingTypes
             /\ ReachesNoStackForm(ctx, ctx.underlyingTypes[r.name])

\* Every part of the term that stackSize evaluates is monomorphic and of a known constructor.
RECURSIVE Monomorphic(_, _)
Monomorphic(ctx, t) ==
    LET r == resolve(ctx, t)
    IN /\ r.kind = "const"
       /\ \/ r.name \in {"Unit", "Itself", "Bool", "Word", "Function", "Integer", "Void", "TypeFunction"}
          \/ r.name = "Pair" /\ \A k \in 1..2 : Monomorphic(ctx, r.args[k])
          \/ /\ r.name \in DOMAIN ctx.underlyingTypes
             /\ resolve(ctx, ctx.underlyingTypes[r.name]).kind = "const"
             /\ Monomorphic(ctx, ctx.underlyingTypes[r.name])

(***************************************************************************)
(* C11: for a type that resolves to Integer, Void or TypeFunction, and for *)
(* a type whose evaluation reaches one as a component of a Pair or as the  *)
(* underlying type of a user-defined constructor, stackSize never returns  *)
(* a number (so never 0); it throws CompilerError, not an assertion        *)
(* failure, whenever the type itself resolves to such a primitive and      *)
(* whenever all the parts evaluated are monomorphic with known             *)
(* constructors.                                                           *)
(***************************************************************************)
C11_NoStackFormRaisesCompilerError ==
    (stackResult # NoStackResult /\ ReachesNoStackForm(context, type)) =>
        /\ stackResult.kind # "value"
        /\ resolve(context, type).name \in {"Integer", "Void", "TypeFunction"} => stackResult = CompilerError
        /\ Monomorphic(context, type) => stackResult = CompilerError

\* CompilerError came out of a nested Pair whose only part without a stack form is the
\* underlying type of the user-defined constructor
C11_Witness ==
    /\ stackResult = CompilerError
    /\ type.name = "Pair" /\ TypeDepth(type) = 2
    /\ Mentions(type, "T") /\ context.underlyingTypes["T"] = IntegerType
    /\ ~Mentions(type, "Void") /\ ~Mentions(type, "Integer") /\ ~Mentions(type, "TypeFunction")

(***************************************************************************)
(* C12 as stated: the main loop runs for w = n-1 down to 1 and skips the   *)
(* entry: no iteration of the loop body is executed with w = 0.            *)
(***************************************************************************)
C12_Original ==
    /\ \A k \in 1..Len(iterations) :
          iterations[k].wIdx = numVertices - k /\ iterations[k].wIdx # 0
    /\ pc \in {"step4", "tree", "done"} => Len(iterations) = numVertices - 1

(***************************************************************************)
(* C12 amended: the main loop runs the loop body for w = n-1 down to 0 in  *)
(* strictly decreasing order; its last iteration is the one for the entry, *)
(* w = 0, and the loop does not end before that iteration.                 *)
(***************************************************************************)
C12_MainLoopRunsDownToTheEntry ==
    /\ \A k \in 1..Len(iterations) : iterations[k].wIdx = numVertices - k
    /\ pc = "loop" => Len(iterations) = numVertices - 1 - pos
    /\ pc \in {"step4", "tree", "done"} =>
          /\ Len(iterations) = numVertices
          /\ iterations[numVertices].wIdx = 0

\* the loop ended on four vertices, and its iteration for the entry processed a bucket
\* of two vertices and evaluated a predecessor of the entry
C12_Witness ==
    /\ pc = "step4" /\ numVertices = 4
    /\ iterations[4].wIdx = 0 /\ Len(iterations[4].bucket) >= 2
    /\ \E c \in evalCalls : c.step = 2 /\ c.wIdx = 0

\* The places <<k, j>> where the bucket processed by the k-th iteration holds the index i.
Processed(i) ==
    {p \in (1..Len(iterations)) \X (1..numVertices) :
        p[2] <= Len(iterations[p[1]].bucket) /\ iterations[p[1]].bucket[p[2]] = i}

(***************************************************************************)
(* C13 as stated: each bucket[w] is processed once, at the start of the    *)
(* iteration for w, nothing is appended to bucket[w] after that, every     *)
(* index appended to a bucket is processed exactly once, and no bucket     *)
(* entry is unprocessed when the main loop ends.                           *)
(***************************************************************************)
C13_Original ==
    /\ \A k \in 1..Len(iterations), l \in 1..Len(iterations) :
          iterations[k].wIdx = iterations[l].wIdx => k = l
    /\ pc \in {"loop", "step4"} =>
          \A k \in 1..Len(iterations) : bucket[iterations[k].wIdx] = iterations[k].bucket
    /\ pc = "step4" =>
          /\ \A w \in DOMAIN bucket : \E k \in 1..Len(iterations) : iterations[k].wIdx = w
          /\ \A w \in DOMAIN bucket : \A j \in 1..Len(bucket[w]) :
                Cardinality(Processed(bucket[w][j])) = 1

(***************************************************************************)
(* C13 amended: each bucket[w] is processed once, at the start of the      *)
(* iteration for w, and nothing is appended to it after that, except that  *)
(* the last iteration appends the entry's index 0 to bucket[0] after       *)
(* having processed bucket[0]; every index i > 0 is processed exactly      *)
(* once, and when the main loop ends that 0 is the only entry of a bucket  *)
(* that was not processed.                                                 *)
(***************************************************************************)
C13_BucketsProcessedOnceEntryLeftOver ==
    /\ \A k \in 1..Len(iterations), l \in 1..Len(iterations) :
          iterations[k].wIdx = iterations[l].wIdx => k = l
    /\ pc \in {"loop", "step4"} =>
          \A k \in 1..Len(iterations) :
              bucket[iterations[k].wIdx] = IF iterations[k].wIdx = 0
                                           THEN Append(iterations[k].bucket, 0)
                                           ELSE iterations[k].bucket
    /\ pc = "step4" =>
          /\ \A w \in DOMAIN bucket : \E k \in 1..Len(iterations) : iterations[k].wIdx = w
          /\ \A i \in DOMAIN bucket \ {0} : Cardinality(Processed(i)) = 1
          /\ Processed(0) = {}
          /\ \A w \in DOMAIN bucket : \A j \in 1..Len(bucket[w]) :
                bucket[w][j] = 0 => (w = 0 /\ j = Len(bucket[0]))

\* the loop ended on four vertices; the bucket of a vertex other than the entry held two
\* indices when it was processed, and bucket[0] held one
C13_Witness ==
    /\ pc = "step4" /\ numVertices = 4
    /\ \E k \in 1..Len(iterations) : iterations[k].wIdx > 0 /\ Len(iterations[k].bucket) = 2
    /\ Len(bucket[0]) = 2

(***************************************************************************)
(* C14: every call uIdx = eval(vIdx) made in step 3 (on a bucket element)  *)
(* or in step 2 (on a predecessor) returns uIdx <= vIdx, and no assertion  *)
(* of the main loop fails; this includes the iteration for the entry and   *)
(* predecessors reached by back edges and by cross edges.                  *)
(***************************************************************************)
C14_EvalReturnsAtMostItsArgument ==
    /\ \A c \in evalCalls : c.uIdx <= c.vIdx /\ c.uIdx \in 0..(numVertices - 1)
    /\ pc # "assert"

\* the loop ended after eval was called on a predecessor of the entry (a back edge into the
\* entry) and on a predecessor along a cross edge (neither end an ancestor of the other in
\* the DFS tree), and a call of step 2 returned a smaller index than its argument
C14_Witness ==
    /\ pc = "step4"
    /\ \E c \in evalCalls : c.step = 2 /\ c.wIdx = 0 /\ c.vIdx > 0
    /\ \E c \in evalCalls : /\ c.step = 2 /\ c.vIdx > c.wIdx
                            /\ c.wIdx \notin {parent[c.vIdx], parent[parent[c.vIdx]]}
                            /\ c.wIdx # 0
    /\ \E c \in evalCalls : c.step = 2 /\ c.uIdx < c.vIdx

\* The DFS index of a reachable vertex in the textbook preorder.
RefIndex(v) == (CHOOSE k \in 1..Len(RefPreorder) : RefPreorder[k] = v) - 1

\* The indices with an edge into the vertex of index x.
RefPredecessors(x) ==
    {RefIndex(u) : u \in {r \in Reachable : RefPreorder[x + 1] \in Targets(succ, r)}}

\* w and the indices above w from which w is reached through indices above w only.
RECURSIVE ReachesThroughLarger(_, _)
ReachesThroughLarger(w, M) ==
    LET next == M \cup {p \in UNION {RefPredecessors(x) : x \in M} : p > w}
    IN IF next = M THEN M ELSE ReachesThroughLarger(w, next)

\* The starts of the paths to w all of whose intermediate vertices have an index above w.
SemiCandidates(w) == UNION {RefPredecessors(x) : x \in ReachesThroughLarger(w, {w})}

\* The true semidominator of w > 0: the smallest such start.
RefSemi(w) == CHOOSE s \in SemiCandidates(w) : \A t \in SemiCandidates(w) : s <= t

(***************************************************************************)
(* C15: when the main loop ends, semi[w] is for every w > 0 the DFS index  *)
(* of the true semidominator of w, the smallest index s with a path from s *)
(* to w all of whose intermediate vertices have an index above w; so       *)
(* semi[w] < w for w > 0, and semi[0] = 0.                                 *)
(***************************************************************************)
C15_SemiIsTrueSemidominator ==
    pc = "step4" =>
        /\ semi[0] = 0
        /\ \A w \in 1..(NumReachable - 1) :
              /\ semi[w] = RefSemi(w)
              /\ semi[w] < w

\* the loop ended on five vertices with a semidominator that only eval finds: it is smaller
\* than every predecessor below w and than the semidominator of every predecessor above w
C15_Witness ==
    /\ pc = "step4" /\ numVertices = 5
    /\ \E w \in 1..4 : \A v \in predecessors[w] : semi[w] < (IF v < w THEN v ELSE semi[v])

\* The virtual forest when the call c was made: x is linked below parent[x] once link ran for x.
\* The vertices from x up to, not including, the root of its tree, and that root.
RECURSIVE ForestPath(_, _)
ForestPath(c, x) == IF c.ancestor[x] = SizeMax THEN {} ELSE {x} \cup ForestPath(c, c.parent[x])

RECURSIVE ForestRoot(_, _)
ForestRoot(c, x) == IF c.ancestor[x] = SizeMax THEN x ELSE ForestRoot(c, c.parent[x])

(***************************************************************************)
(* C18: for every call compressPath(v) made during construction, on return *)
(* ancestor[v] is the root of v's tree in the virtual forest, label[v] is  *)
(* a non-root vertex on the path from v to that root with the minimum semi *)
(* among the non-root vertices of the path, and the closing assertion      *)
(* label[u] <= label[v], u being ancestor[v] on entry, does not fail;      *)
(* also when several vertices of the path have the minimum semi.           *)
(***************************************************************************)
C18_CompressPathPostCondition ==
    /\ \A c \in compressCalls :
          /\ c.ancestorAfter = ForestRoot(c, c.vIdx)
          /\ c.labelAfter \in ForestPath(c, c.vIdx)
          /\ \A x \in ForestPath(c, c.vIdx) : c.semi[c.labelAfter] <= c.semi[x]
          /\ c.labelOfUAfter <= c.labelAfter
    /\ pc # "assert"

\* a call that recursed and changed label[v], and a call on a path of three or more
\* non-root vertices two of which have the minimum semi
C18_Witness ==
    /\ \E c \in compressCalls : c.ancestor[c.uIdx] # SizeMax /\ c.labelAfter # c.label[c.vIdx]
    /\ \E c \in compressCalls :
          /\ Cardinality(ForestPath(c, c.vIdx)) >= 3
          /\ Cardinality({x \in ForestPath(c, c.vIdx) : c.semi[x] = c.semi[c.labelAfter]}) >= 2

(***************************************************************************)
(* C17 as stated: with n_hint = n, every read and write of semi, parent,   *)
(* label, predecessors and m_vertices during the DFS numbering uses an     *)
(* index in [0, n); semi[dfIdx] is never evaluated with dfIdx = n.         *)
(***************************************************************************)
C17_DfsIndicesInRange ==
    (pc # "build" /\ numVertices = NumReachable) => (~oob /\ pc # "undefined")

\* The graph without the self-loop of v.
WithoutSelfLoop(s, v) == [s EXCEPT ![v] = SelectSeq(@, LAMBDA w : w # v)]

(***************************************************************************)
(* C16 as stated: adding a self-loop v -> v to a reachable vertex v, the   *)
(* entry included, changes neither the numbering nor idom: construction on *)
(* the graph with the self-loop completes without an assertion failure and *)
(* returns the same vertices(), vertexIndices() and immediateDominators()  *)
(* as construction on the graph without it.                                *)
(***************************************************************************)
C16_SelfLoopChangesNothing ==
    \A v \in Reachable :
        (v \in Targets(succ, v) /\ pc # "build") =>
            /\ pc \notin {"assert", "undefined"}
            /\ pc \in {"tree", "done"} =>
                  \A oracle \in BOOLEAN :
                      \E r \in {findDominators(WithoutSelfLoop(succ, v), entry, NumReachable, oracle)} :
                          /\ r.ok
                          /\ r.vertices = m_vertices
                          /\ r.vertexIndices = m_vertexIndices
                          /\ r.idom = m_immediateDominators

====
